---- MODULE Spec2Model ----
(***************************************************************************)
(* Model of the compass deployment pipeline: the per-stage Create and      *)
(* Destroy actions of core/stage.go, run as one concurrent task per stage  *)
(* and sequenced by the Depends graph (Wait / Complete).                   *)
(***************************************************************************)
EXTENDS Integers, Sequences, FiniteSets, TLC

VARIABLES
    mode,       \* "create" or "destroy": the action the pipeline run fans out
    main,       \* the pipeline's base value mapping (Pipeline.Values)
    depends,    \* stage.Depends, per stage
    requires,   \* stage.Requires, per stage
    abandon,    \* stage.Abandon, per stage
    varied,     \* the stages whose environment may answer anything (see Init)
    pc,         \* position of each stage's task inside Create / Destroy
    completed,  \* the Depends graph: the set of keys marked complete
    waited,     \* history: the stages whose Wait call has returned
    signals,    \* history: <<stage, key>> for every Complete(key) a stage made
    nComplete,  \* history: number of deferred Complete calls each task ran
    values,     \* effective values of each stage (task-local mapping)
    loaded,     \* history: what LoadVals returned for each stage's value file
    err,        \* Create's local err: "unset", "nil" or "err"
    status,     \* Create's local status, "unset" until line 171 assigns it
    calls,      \* history: backend calls of each stage, in order
    hooks,      \* history: hook commands run by each stage and their outcomes
    result,     \* "none" while running, then the error returned ("nil" for
                \* none), "panic" or "fatal"
    exited,     \* TRUE once log.Fatalf or an unrecovered panic ended the process
    call        \* a single call of a values helper, checked on its own

\* the state of a pipeline run
pipeline == <<mode, main, depends, requires, abandon, varied, pc, completed,
              waited, signals, nComplete, values, loaded, err, status, calls,
              hooks, result, exited>>

vars == <<pipeline, call>>

config == <<mode, main, depends, requires, abandon, varied>>

\* the stage definitions, which no action writes
settings == <<mode, depends, requires, abandon, varied>>

----------------------------------------------------------------------------
(* Bounds and input sets *)

\* number of commands in each of jobs.before and jobs.after
MaxJobs == 1

\* number of entries in stage.Templates
MaxTemplates == 1

StageSeq == <<"db", "api", "web">>

Stages == {StageSeq[i] : i \in 1..Len(StageSeq)}

\* a key that no stage owns
Ghost == "ghost"

Keys == Stages \cup {Ghost}

Rank(s) == CHOOSE i \in 1..Len(StageSeq) : StageSeq[i] = s

Below(s) == {t \in Stages : Rank(t) < Rank(s)}

NoVals == [k \in {} |-> ""]

BaseValues == [region |-> "eu", namespace |-> "base"]

\* what LoadVals can hand back for stage.Values: nil, or the parsed file
ValueFiles == { NoVals, [region |-> "us", license |-> "f", release |-> "file"] }

RequiresChoices == { {}, {"license"}, {"region"} }

\* The run varies the configuration (abandon, requires) and the environment
\* (release status, value file, hook, template and backend outcomes) of the
\* stages in `varied`: no stage, or any one stage.  Every other stage is a
\* fresh install in which every external call succeeds.
VariedSets == {{}} \cup {{s} : s \in Stages}

Statuses == {"DEPLOYED", "PENDING_INSTALL"}

Namespace(s) == "ns-" \o s

Release(s) == "rel-" \o s

----------------------------------------------------------------------------
(* helm values helpers *)

\* a merge in which the left-hand mapping wins
MergeVals_KeepLeft(prev, next) ==
    [k \in (DOMAIN prev) \cup (DOMAIN next) |->
        IF k \in DOMAIN prev THEN prev[k] ELSE next[k]]

\* the contents of prev after MergeVals(prev, next)
MergeVals(prev, next) ==
    [k \in (DOMAIN prev) \cup (DOMAIN next) |->
        IF k \in DOMAIN next THEN next[k] ELSE prev[k]]

cpVals(prev) == [k \in DOMAIN prev |-> prev[k]]

\* file contents: no bytes at all (nil), bytes that are no YAML mapping, or
\* the YAML text of a mapping
NilBytes == [nil |-> TRUE, valid |-> TRUE, vals |-> NoVals]

BadYaml == [nil |-> FALSE, valid |-> FALSE, vals |-> NoVals]

Yaml(m) == [nil |-> FALSE, valid |-> TRUE, vals |-> m]

\* a file on disk: whether ioutil.ReadFile succeeds, and its contents
File(readable, data) == [readable |-> readable, data |-> data]

\* LoadFile: nil for the empty path and for a file that cannot be read
LoadFile(vals, disk) ==
    IF vals = "" THEN NilBytes
    ELSE IF ~disk.readable THEN NilBytes
    ELSE disk.data

\* LoadVals: nil for the empty path and for bytes that do not unmarshal; nil
\* data is read from the file.  A nil mapping ranges like the empty one and
\* is written NoVals.
LoadVals(vals, data, disk) ==
    IF vals = "" THEN NoVals
    ELSE LET d == IF data.nil THEN LoadFile(vals, disk) ELSE data IN
         IF d.valid THEN d.vals ELSE NoVals

\* a cpVals that hands back the map it was given
SharesMap_Alias(prev) == TRUE

\* whether the map cpVals returns is the map it was given, so that the
\* in-place merges of its caller write into prev: line 113 makes a new map
SharesMap(prev) == FALSE

\* a requires check that accepts everything
checkRequires_Skip(vals, reqs) == TRUE

checkRequires(vals, reqs) == \A r \in reqs : r \in DOMAIN vals

\* effective values in which the value file is overlaid last
EffectiveValues_FileLast(s, file) ==
    MergeVals(MergeVals(MergeVals(cpVals(main),
                                  [namespace |-> Namespace(s)]),
                        [release |-> Release(s)]),
              file)

\* lines 143-146 of Create
EffectiveValues(s, file) ==
    MergeVals(MergeVals(MergeVals(cpVals(main), file),
                        [namespace |-> Namespace(s)]),
              [release |-> Release(s)])

\* Generate, line 59: the rendered bytes are appended to out; a template that
\* renders to nothing leaves a nil out nil
Generate(out, rendered) == IF rendered.nil THEN out ELSE rendered

\* what executing a template gives: a parse or execute error, or bytes
RenderFails == [ok |-> FALSE, data |-> NilBytes]

Rendered(data) == [ok |-> TRUE, data |-> data]

\* an Extrapolate that merges the mapping into the file's values
Extrapolate_FileLast(tpl, vals, disk, render) ==
    IF tpl = "" THEN [phase |-> "returned", vals |-> vals]
    ELSE IF ~disk.readable \/ ~render.ok
    THEN [phase |-> "fatal", vals |-> vals]
    ELSE [phase |-> "returned",
          vals |-> MergeVals(LoadVals(tpl, Generate(NilBytes, render.data),
                                      disk),
                             vals)]

\* Extrapolate: the phase it ends in and the contents of the mapping it was
\* given, which is the mapping it returns.  disk is the file at tpl, render
\* what its template executes to.
Extrapolate(tpl, vals, disk, render) ==
    IF tpl = "" THEN [phase |-> "returned", vals |-> vals]
    ELSE IF ~disk.readable \/ ~render.ok
    THEN [phase |-> "fatal", vals |-> vals]
    ELSE [phase |-> "returned",
          vals |-> MergeVals(vals,
                             LoadVals(tpl, Generate(NilBytes, render.data),
                                      disk))]

\* the orders in which a range over the keys of a mapping can visit them
Orders(keys) ==
    {o \in [1..Cardinality(keys) -> keys] :
        \A i, j \in 1..Cardinality(keys) : i # j => o[i] # o[j]}

\* shellVars: line 78 makes a slice of len(vals) empty strings and line 80
\* appends one KEY=VALUE string per key behind them, in the order of the range
shellVars(vals, order) ==
    [i \in 1..(2 * Cardinality(DOMAIN vals)) |->
        IF i <= Cardinality(DOMAIN vals) THEN ""
        ELSE LET k == order[i - Cardinality(DOMAIN vals)] IN
             k \o "=" \o vals[k]]

\* shellJobs, line 90: cmd.Env = append(values, os.Environ()...)
CmdEnv(envs, environ) == envs \o environ

\* the ambient environment of the process
Environ == <<"HOME=/root">>

----------------------------------------------------------------------------
(* Single calls of the values helpers *)

MapKeys == {"a", "b", "c"}

MapVals == {"1", "2"}

\* every mapping from some of the keys to the values
Maps == UNION {[D -> MapVals] : D \in SUBSET MapKeys}

\* the override path of Extrapolate: none, or a file
Paths == {"", "override.yaml"}

\* what an override file can hold, and what it can render to
Contents ==
    {NilBytes, BadYaml} \cup
    {Yaml(m) : m \in {NoVals, [b |-> "3"], [b |-> "3", c |-> "4"]}}

RenderAnswers == {RenderFails} \cup {Rendered(d) : d \in Contents}

\* fn is the helper called; prev and next are the mappings it was given as
\* they are now, prev0 and next0 as they were at the call; disk and render
\* are the file and the template output that Extrapolate met; envs is what
\* shellVars returned and env the cmd.Env that shellJobs builds from it
NoCall ==
    [fn |-> "none", phase |-> "none", tpl |-> "", prev |-> NoVals,
     next |-> NoVals, prev0 |-> NoVals, next0 |-> NoVals,
     disk |-> File(FALSE, NilBytes), render |-> RenderFails,
     envs |-> <<>>, env |-> <<>>]

----------------------------------------------------------------------------
(* The Depends graph *)

\* a Wait that one complete key releases
Wait_Any(keys) == keys = {} \/ keys \cap completed # {}

\* blocks until every key of keys is marked complete
Wait(keys) == keys \subseteq completed

\* a Complete that forgets the keys completed before
Complete_Overwrite(keys) == completed' = keys

\* marks every key of keys complete
Complete(keys) == completed' = completed \cup keys

----------------------------------------------------------------------------
Init ==
    /\ mode \in {"create", "destroy"}
    /\ main = BaseValues
    /\ depends \in [Stages -> SUBSET Keys]
    /\ \A s \in Stages : depends[s] \subseteq Below(s) \cup {Ghost}
    /\ Cardinality({s \in Stages : Ghost \in depends[s]}) <= 1
    /\ requires \in [Stages -> RequiresChoices]
    /\ abandon \in [Stages -> BOOLEAN]
    /\ (mode = "destroy" => \A s \in Stages : ~abandon[s])
    /\ varied \in VariedSets
    /\ \A s \in Stages \ varied : ~abandon[s] /\ requires[s] = {}
    /\ pc = [s \in Stages |-> "start"]
    /\ completed = {}
    /\ waited = {}
    /\ signals = {}
    /\ nComplete = [s \in Stages |-> 0]
    /\ values = [s \in Stages |-> NoVals]
    /\ loaded = [s \in Stages |-> NoVals]
    /\ err = [s \in Stages |-> "unset"]
    /\ status = [s \in Stages |-> "unset"]
    /\ calls = [s \in Stages |-> <<>>]
    /\ hooks = [s \in Stages |-> <<>>]
    /\ result = [s \in Stages |-> "none"]
    /\ exited = FALSE
    /\ call = NoCall

----------------------------------------------------------------------------
(* Stage configuration that the run does not vary *)

Before(s) == [i \in 1..MaxJobs |-> <<"before", i>>]

After(s) == [i \in 1..MaxJobs |-> <<"after", i>>]

Templates(s) == [i \in 1..MaxTemplates |-> <<"template", i>>]

\* the commands shellJobs runs, each with its outcome: all of them when none
\* fails (failAt = 0), else those up to and including the first one that fails
shellJobs(jobs, failAt) ==
    [i \in 1..(IF failAt = 0 THEN Len(jobs) ELSE failAt) |->
        <<jobs[i], IF i = failAt THEN "failed" ELSE "ok">>]

----------------------------------------------------------------------------
(* Decisions of Create and Destroy *)

\* a Create that forgets the abandon flag
AbandonFails_Never(s, e) == FALSE

\* Create, line 139: err == nil && stage.Abandon
AbandonFails(s, e) == e = "nil" /\ abandon[s]

\* a Create that does not wait for anything
CreateWaitKeys_None(s) == {}

\* a Create that waits for every stage listed before it
CreateWaitKeys_Below(s) == Below(s)

\* Create, line 153: deps.Wait(stage.Depends...)
CreateWaitKeys(s) == depends[s]

\* a Create that signals every key of the graph
CreateCompleteKeys_All(s) == Keys

\* Create, line 136: defer deps.Complete(key)
CreateCompleteKeys(s) == {s}

\* a Destroy that does not wait for anything
DestroyWaitKeys_None(s) == {}

\* Destroy, line 129: deps.Wait(key)
DestroyWaitKeys(s) == {s}

\* a Destroy that signals its own key
DestroyCompleteKeys_Own(s) == {s}

\* Destroy, line 122: defer deps.Complete(stage.Depends...)
DestroyCompleteKeys(s) == depends[s]

\* Create, line 172: status == "PENDING_INSTALL" || err != nil
InstallBranch(st, e) == st = "PENDING_INSTALL" \/ e # "nil"

\* an install branch that always deletes first
DeletesStale_Always(e) == TRUE

\* Create, line 173: err == nil, inside the install branch
DeletesStale(e) == e = "nil"

\* Create, lines 178-180: InstallChart's error ends in log.Fatalf
InstallFatal(installErr) == installErr # "nil"

\* Create, lines 187-190: UpgradeChart's error is dropped; the err tested is
\* the one ReleaseStatus returned
UpgradeFatal(e, upgradeErr) == e # "nil"

\* the backend calls of the install / upgrade step and their outcomes
ReleaseCalls(st, e, backendErr) ==
    LET outcome == IF backendErr = "nil" THEN "ok" ELSE "failed" IN
    IF InstallBranch(st, e)
    THEN (IF DeletesStale(e) THEN << <<"Delete", "ok">> >> ELSE <<>>)
         \o << <<"Install", outcome>> >>
    ELSE << <<"Upgrade", outcome>> >>

\* what ReleaseStatus can answer: a status with a nil error, or an error
\* (no such release)
StatusAnswers(s) ==
    {<<"", "err">>} \cup
    (IF s \in varied THEN {<<st, "nil">> : st \in Statuses} ELSE {})

\* what LoadVals can hand back for stage.Values
FileAnswers(s) == IF s \in varied THEN ValueFiles ELSE {NoVals}

\* the error of InstallChart, UpgradeChart or DeleteRelease
BackendAnswers(s) ==
    {"nil"} \cup (IF s \in varied \/ mode = "destroy" THEN {"err"} ELSE {})

\* the position of the first failing command of a job list, 0 for none
JobAnswers(s, jobs) == {0} \cup (IF s \in varied THEN 1..Len(jobs) ELSE {})

\* the position of the first failing template, 0 for none
TemplateAnswers(s) ==
    {0} \cup (IF s \in varied THEN 1..Len(Templates(s)) ELSE {})

\* the deferred calls Create has registered, in the order of registration:
\* deps.Complete at line 136, the after hooks at line 156, behind the Wait
Registered(s) ==
    IF s \in waited THEN <<"complete", "after">> ELSE <<"complete">>

\* deferred calls that run in the order of registration
Deferred_InOrder(registered) == registered

\* the order in which deferred calls run when Create returns or panics: the
\* last one registered first
Deferred(registered) ==
    [i \in 1..Len(registered) |-> registered[Len(registered) + 1 - i]]

\* where Create goes on after `at`, its return (or panic) or one of its
\* deferred calls: the next deferred call, or out of Create, where a panic
\* goes on to end the process
Unwind(s, at) ==
    LET d == Deferred(Registered(s))
        i == IF at = "return" THEN 0
             ELSE CHOOSE j \in 1..Len(d) : d[j] = at
    IN  IF i < Len(d) THEN d[i + 1]
        ELSE IF result[s] = "panic" THEN "crash" ELSE "done"

----------------------------------------------------------------------------
(* Create, one task per stage *)

\* lines 138-141
CreatePreflight(s) ==
    /\ mode = "create" /\ ~exited /\ pc[s] = "start"
    /\ \E a \in StatusAnswers(s) :
        /\ err' = [err EXCEPT ![s] = a[2]]
        /\ IF AbandonFails(s, a[2])
           THEN /\ result' = [result EXCEPT ![s] = "chart already installed"]
                /\ pc' = [pc EXCEPT ![s] = Unwind(s, "return")]
           ELSE /\ pc' = [pc EXCEPT ![s] = "resolve"]
                /\ UNCHANGED result
    /\ UNCHANGED <<config, call, loaded, completed, waited, signals,
                   nComplete, values, status, calls, hooks, exited>>

\* lines 143-151: MergeVals writes into the map cpVals returned
CreateResolve(s) ==
    /\ mode = "create" /\ ~exited /\ pc[s] = "resolve"
    /\ \E file \in FileAnswers(s) :
        LET vals == EffectiveValues(s, file) IN
        /\ values' = [values EXCEPT ![s] = vals]
        /\ loaded' = [loaded EXCEPT ![s] = file]
        /\ main' = IF SharesMap(main) THEN vals ELSE main
        /\ IF checkRequires(vals, requires[s])
           THEN /\ err' = [err EXCEPT ![s] = "nil"]
                /\ pc' = [pc EXCEPT ![s] = "wait"]
                /\ UNCHANGED result
           ELSE /\ err' = [err EXCEPT ![s] = "err"]
                /\ result' = [result EXCEPT ![s] = "requirement not met"]
                /\ pc' = [pc EXCEPT ![s] = Unwind(s, "return")]
    /\ UNCHANGED <<settings, call, completed, waited, signals, nComplete,
                   status, calls, hooks, exited>>

\* line 153
CreateWait(s) ==
    /\ mode = "create" /\ ~exited /\ pc[s] = "wait"
    /\ Wait(CreateWaitKeys(s))
    /\ pc' = [pc EXCEPT ![s] = "before"]
    /\ waited' = waited \cup {s}
    /\ UNCHANGED <<config, call, loaded, completed, signals, nComplete,
                   values, err, status, calls, hooks, result, exited>>

\* line 155: the error shellJobs returns is dropped
CreateBefore(s) ==
    /\ mode = "create" /\ ~exited /\ pc[s] = "before"
    /\ \E failAt \in JobAnswers(s, Before(s)) :
        hooks' = [hooks EXCEPT ![s] = @ \o shellJobs(Before(s), failAt)]
    /\ pc' = [pc EXCEPT ![s] = "render"]
    /\ UNCHANGED <<config, call, loaded, completed, waited, signals,
                   nComplete, values, err, status, calls, result, exited>>

\* lines 158-165: a template that cannot be read panics (the deferred calls
\* run), a template that does not parse or execute ends in log.Fatalf
CreateRender(s) ==
    /\ mode = "create" /\ ~exited /\ pc[s] = "render"
    /\ \E i \in TemplateAnswers(s), o \in {"read", "generate"} :
        IF i = 0
        THEN /\ pc' = [pc EXCEPT ![s] = "decide"]
             /\ UNCHANGED <<result, exited>>
        ELSE IF o = "read"
        THEN /\ result' = [result EXCEPT ![s] = "panic"]
             /\ pc' = [pc EXCEPT ![s] = Unwind(s, "return")]
             /\ UNCHANGED exited
        ELSE /\ result' = [result EXCEPT ![s] = "fatal"]
             /\ pc' = [pc EXCEPT ![s] = "fatal"]
             /\ exited' = TRUE
    /\ UNCHANGED <<config, call, loaded, completed, waited, signals,
                   nComplete, values, err, status, calls, hooks>>

\* lines 171-192
CreateRelease(s) ==
    /\ mode = "create" /\ ~exited /\ pc[s] = "decide"
    /\ \E a \in StatusAnswers(s), backendErr \in BackendAnswers(s) :
        /\ status' = [status EXCEPT ![s] = a[1]]
        /\ err' = [err EXCEPT ![s] = a[2]]
        /\ calls' = [calls EXCEPT ![s] = @ \o ReleaseCalls(a[1], a[2], backendErr)]
        /\ IF IF InstallBranch(a[1], a[2])
              THEN InstallFatal(backendErr)
              ELSE UpgradeFatal(a[2], backendErr)
           THEN /\ result' = [result EXCEPT ![s] = "fatal"]
                /\ pc' = [pc EXCEPT ![s] = "fatal"]
                /\ exited' = TRUE
           ELSE /\ result' = [result EXCEPT ![s] = "nil"]
                /\ pc' = [pc EXCEPT ![s] = Unwind(s, "return")]
                /\ UNCHANGED exited
    /\ UNCHANGED <<config, call, loaded, completed, waited, signals,
                   nComplete, values, hooks>>

\* line 156: defer shellJobs(..., stage.Jobs.After, ...)
CreateAfter(s) ==
    /\ mode = "create" /\ ~exited /\ pc[s] = "after"
    /\ \E failAt \in JobAnswers(s, After(s)) :
        hooks' = [hooks EXCEPT ![s] = @ \o shellJobs(After(s), failAt)]
    /\ pc' = [pc EXCEPT ![s] = Unwind(s, "after")]
    /\ UNCHANGED <<config, call, loaded, completed, waited, signals,
                   nComplete, values, err, status, calls, result, exited>>

\* line 136: the deferred deps.Complete(key)
CreateComplete(s) ==
    /\ mode = "create" /\ ~exited /\ pc[s] = "complete"
    /\ Complete(CreateCompleteKeys(s))
    /\ signals' = signals \cup {<<s, k>> : k \in CreateCompleteKeys(s)}
    /\ nComplete' = [nComplete EXCEPT ![s] = @ + 1]
    /\ pc' = [pc EXCEPT ![s] = Unwind(s, "complete")]
    /\ UNCHANGED <<config, call, loaded, waited, values, err, status, calls,
                   hooks, result, exited>>

\* line 162: the panic leaves Create after its deferred calls and, nothing
\* recovering it, ends the process
Crash(s) ==
    /\ ~exited /\ pc[s] = "crash"
    /\ exited' = TRUE
    /\ pc' = [pc EXCEPT ![s] = "panicked"]
    /\ UNCHANGED <<config, call, loaded, completed, waited, signals,
                   nComplete, values, err, status, calls, hooks, result>>

-----
(* Destroy, one task per stage *)

\* lines 124-127; the caller hands Destroy the pipeline's values
DestroyRequires(s) ==
    /\ mode = "destroy" /\ ~exited /\ pc[s] = "start"
    /\ IF checkRequires(main, requires[s])
       THEN /\ pc' = [pc EXCEPT ![s] = "wait"]
            /\ UNCHANGED result
       ELSE /\ result' = [result EXCEPT ![s] = "requirement not met"]
            /\ pc' = [pc EXCEPT ![s] = "complete"]
    /\ UNCHANGED <<config, call, loaded, completed, waited, signals,
                   nComplete, values, err, status, calls, hooks, exited>>

DestroyWait(s) ==
    /\ mode = "destroy" /\ ~exited /\ pc[s] = "wait"
    /\ Wait(DestroyWaitKeys(s))
    /\ pc' = [pc EXCEPT ![s] = "delete"]
    /\ waited' = waited \cup {s}
    /\ UNCHANGED <<config, call, loaded, completed, signals, nComplete,
                   values, err, status, calls, hooks, result, exited>>

DestroyDelete(s) ==
    /\ mode = "destroy" /\ ~exited /\ pc[s] = "delete"
    /\ \E deleteErr \in BackendAnswers(s) :
        /\ calls' = [calls EXCEPT ![s] = @ \o
              << <<"Delete", IF deleteErr = "nil" THEN "ok" ELSE "failed">> >>]
        /\ result' = [result EXCEPT ![s] = deleteErr]
    /\ pc' = [pc EXCEPT ![s] = "complete"]
    /\ UNCHANGED <<config, call, loaded, completed, waited, signals,
                   nComplete, values, err, status, hooks, exited>>

DestroyComplete(s) ==
    /\ mode = "destroy" /\ ~exited /\ pc[s] = "complete"
    /\ Complete(DestroyCompleteKeys(s))
    /\ signals' = signals \cup {<<s, k>> : k \in DestroyCompleteKeys(s)}
    /\ nComplete' = [nComplete EXCEPT ![s] = @ + 1]
    /\ pc' = [pc EXCEPT ![s] = "done"]
    /\ UNCHANGED <<config, call, loaded, waited, values, err, status, calls,
                   hooks, result, exited>>

----------------------------------------------------------------------------
Create(s) ==
    \/ CreatePreflight(s)
    \/ CreateResolve(s)
    \/ CreateWait(s)
    \/ CreateBefore(s)
    \/ CreateRender(s)
    \/ CreateRelease(s)
    \/ CreateAfter(s)
    \/ CreateComplete(s)
    \/ Crash(s)

Destroy(s) ==
    \/ DestroyRequires(s)
    \/ DestroyWait(s)
    \/ DestroyDelete(s)
    \/ DestroyComplete(s)

Next == \E s \in Stages : Create(s) \/ Destroy(s)

Spec == Init /\ [][Next]_vars

\* every stage task is a goroutine of its own and keeps being scheduled
FairSpec == Spec /\ \A s \in Stages : WF_vars(Create(s) \/ Destroy(s))

----------------------------------------------------------------------------
(* One call of MergeVals, Extrapolate or shellVars on arbitrary mappings, no
   pipeline running *)

ValsInit ==
    /\ mode = "helpers"
    /\ main = BaseValues
    /\ depends = [s \in Stages |-> {}]
    /\ requires = [s \in Stages |-> {}]
    /\ abandon = [s \in Stages |-> FALSE]
    /\ varied = {}
    /\ pc = [s \in Stages |-> "start"]
    /\ completed = {}
    /\ waited = {}
    /\ signals = {}
    /\ nComplete = [s \in Stages |-> 0]
    /\ values = [s \in Stages |-> NoVals]
    /\ loaded = [s \in Stages |-> NoVals]
    /\ err = [s \in Stages |-> "unset"]
    /\ status = [s \in Stages |-> "unset"]
    /\ calls = [s \in Stages |-> <<>>]
    /\ hooks = [s \in Stages |-> <<>>]
    /\ result = [s \in Stages |-> "none"]
    /\ exited = FALSE
    /\ \E fn \in {"MergeVals", "Extrapolate", "shellVars"}, tpl \in Paths,
          prev \in Maps, next \in Maps :
        /\ fn # "Extrapolate" => tpl = ""
        /\ fn # "MergeVals" => next = NoVals
        /\ call = [NoCall EXCEPT !.fn = fn, !.phase = "ready", !.tpl = tpl,
                                 !.prev = prev, !.next = next,
                                 !.prev0 = prev, !.next0 = next]

\* MergeVals writes every entry of next into prev and reads next only
CallMergeVals ==
    /\ call.fn = "MergeVals" /\ call.phase = "ready"
    /\ call' = [call EXCEPT !.prev = MergeVals(call.prev, call.next),
                            !.phase = "returned"]
    /\ UNCHANGED pipeline

\* Extrapolate on a file that may be unreadable and a template that may fail
CallExtrapolate ==
    /\ call.fn = "Extrapolate" /\ call.phase = "ready"
    /\ \E readable \in BOOLEAN, data \in Contents, render \in RenderAnswers :
        LET disk == File(readable, data)
            r == Extrapolate(call.tpl, call.prev, disk, render)
        IN  call' = [call EXCEPT !.prev = r.vals, !.phase = r.phase,
                                 !.disk = disk, !.render = render]
    /\ UNCHANGED pipeline

\* shellVars on a mapping, and the environment shellJobs hands to a command
CallShellVars ==
    /\ call.fn = "shellVars" /\ call.phase = "ready"
    /\ \E order \in Orders(DOMAIN call.prev) :
        LET envs == shellVars(call.prev, order) IN
        call' = [call EXCEPT !.envs = envs, !.env = CmdEnv(envs, Environ),
                             !.phase = "returned"]
    /\ UNCHANGED pipeline

ValsNext == CallMergeVals \/ CallExtrapolate \/ CallShellVars

ValsSpec == ValsInit /\ [][ValsNext]_vars

----------------------------------------------------------------------------
(* Vocabulary of the properties *)

\* the backend operations a stage has invoked so far
Invoked(s) == {calls[s][i][1] : i \in 1..Len(calls[s])}

\* the stage has begun the part of Create that follows its Wait: the before
\* hooks, the render, the delete-stale / install / upgrade step
Begun(s) ==
    \/ pc[s] \in {"before", "render", "decide", "after"}
    \/ hooks[s] # <<>>
    \/ calls[s] # <<>>

\* the task has left Create or Destroy, or the process ended under it
Exited(s) == pc[s] \in {"done", "fatal", "panicked"}

\* every depends entry names a stage of the pipeline (the relation is acyclic
\* by Init)
NoDangling == \A s \in Stages : depends[s] \subseteq Stages

----------------------------------------------------------------------------
(* C1 *)

\* C1: in a Create run, a stage begins its before hooks, its render and its
\* delete-stale / install / upgrade step only after the Create task of every
\* key in its depends has signaled Complete on that key.
C1_DependsSignaledBeforeRelease ==
    mode = "create" =>
        \A a \in Stages : Begun(a) =>
            \A y \in depends[a] : <<y, y>> \in signals

C1_Witness ==
    /\ mode = "create"
    /\ \E a \in Stages :
        /\ depends[a] # {}
        /\ "Install" \in Invoked(a)
        /\ \E b \in Stages \ {a} : pc[b] = "wait" /\ a \in depends[b]

----------------------------------------------------------------------------
(* C2 *)

\* C2: every execution of Create has signaled Complete on the stage's own key
\* exactly once when it exits, whichever step it exits at.
C2_CompleteExactlyOnce ==
    mode = "create" =>
        \A s \in Stages : Exited(s) => nComplete[s] = 1 /\ <<s, s>> \in signals

----------------------------------------------------------------------------
(* C3 *)

\* C3: in a Create run whose depends name only existing stages, every stage
\* that reaches its Wait eventually gets past it, whatever step other stages
\* fail at.
C3_WaitEventuallyReturns ==
    \A s \in Stages :
        (mode = "create" /\ NoDangling /\ pc[s] = "wait" /\ depends[s] # {})
            ~> (pc[s] # "wait")

----------------------------------------------------------------------------
(* C4 *)

\* the stages that list y in their depends
Dependents(y) == {x \in Stages : y \in depends[x]}

----------------------------------------------------------------------------
(* C5 *)

\* C5: in a Destroy run, a stage listed in the depends of two or more stages
\* passes its Wait only when every one of them has finished its Destroy and
\* signaled it.
C5_AllDependentsFinishFirst ==
    mode = "destroy" =>
        \A y \in Stages :
            (Cardinality(Dependents(y)) >= 2 /\ y \in waited) =>
                \A x \in Dependents(y) : pc[x] = "done" /\ <<x, y>> \in signals

----------------------------------------------------------------------------
(* C6 *)

RequirementsMet == \A s \in Stages : \A r \in requires[s] : r \in DOMAIN main

\* C6: in a Destroy run whose depends name only existing stages and whose
\* requirements are all met, every stage eventually invokes the Delete of its
\* release.
C6_DestroyReachesDelete ==
    \A s \in Stages :
        (mode = "destroy" /\ NoDangling /\ RequirementsMet)
            ~> ("Delete" \in Invoked(s))

----------------------------------------------------------------------------
(* C7 *)

\* C7: when the preflight status query of a stage with abandon = true
\* succeeds, Create returns the "chart already installed" error straight away;
\* a Create that returns it has made no backend call, has not waited, has run
\* no hook, and has signaled its own key once it is done.
C7_AbandonFailsFast ==
    /\ [][\A s \in Stages :
            (mode = "create" /\ abandon[s] /\ pc[s] = "start"
                /\ pc'[s] # "start" /\ err'[s] = "nil")
            => (pc'[s] = "complete" /\ result'[s] = "chart already installed")
         ]_vars
    /\ [](\A s \in Stages : result[s] = "chart already installed" =>
            /\ pc[s] \in {"complete", "done"}
            /\ calls[s] = <<>>
            /\ hooks[s] = <<>>
            /\ s \notin waited
            /\ (pc[s] = "done" => nComplete[s] = 1 /\ <<s, s>> \in signals))

C7_Witness ==
    \E s \in Stages :
        /\ abandon[s]
        /\ err[s] = "nil"
        /\ result[s] = "chart already installed"
        /\ pc[s] = "done"
        /\ s \in completed

----------------------------------------------------------------------------
(* C8 *)

\* the mapping the requires check of a stage ran against, once it has run
CheckedValues(s) == IF mode = "create" THEN values[s] ELSE main

RequiresChecked(s) ==
    IF mode = "create"
    THEN pc[s] \notin {"start", "resolve"}
         /\ result[s] # "chart already installed"
    ELSE pc[s] # "start"

\* C8: in Create and in Destroy, once the requires check has run against a
\* mapping that lacks a required name, the action is returning the
\* "requirement not met" error: it is never in Wait nor past it, and it has
\* run no hook and made no backend call.
C8_RequiresBeforeWait ==
    \A s \in Stages :
        (/\ RequiresChecked(s)
         /\ \E r \in requires[s] : r \notin DOMAIN CheckedValues(s))
        => /\ result[s] = "requirement not met"
           /\ pc[s] \in {"complete", "done"}
           /\ s \notin waited
           /\ hooks[s] = <<>>
           /\ calls[s] = <<>>

C8_Witness ==
    \E s \in Stages :
        /\ mode = "create"
        /\ depends[s] # {}
        /\ requires[s] = {"license"}
        /\ "license" \notin DOMAIN values[s]
        /\ "release" \in DOMAIN values[s]
        /\ pc[s] = "done"

----------------------------------------------------------------------------
(* C9 *)

\* the keys a stage passes to Wait
WaitedKeys(s) == IF mode = "create" THEN depends[s] ELSE {s}

WaitReturns(s) == CreateWait(s) \/ DestroyWait(s)

\* C9: a Wait returns only when every key handed to it is complete, and a
\* task in Wait can return exactly when its own keys are all complete (at
\* once for no keys), whatever other tasks are waiting for.
C9_WaitReleasedOnOwnKeys ==
    /\ [][\A s \in Stages :
            (pc[s] = "wait" /\ pc'[s] # "wait") => WaitedKeys(s) \subseteq completed
         ]_vars
    /\ [](\A s \in Stages : (pc[s] = "wait" /\ ~exited) =>
            (ENABLED WaitReturns(s) <=> WaitedKeys(s) \subseteq completed))

C9_Witness ==
    /\ mode = "create"
    /\ \E a, b \in Stages :
        /\ a # b
        /\ depends[a] \cap depends[b] # {}
        /\ a \in waited
        /\ pc[b] = "wait"
        /\ ~(depends[b] \subseteq completed)
    /\ \E c \in Stages : depends[c] = {} /\ c \in waited

----------------------------------------------------------------------------
(* C10 *)

\* the keys stage s hands to the Complete call of this step
SignaledNow(s) == {k \in Keys : <<s, k>> \in signals' /\ <<s, k>> \notin signals}

\* C10: a Complete call adds exactly its keys to the complete ones (nothing
\* when they already are complete), no step ever takes a key out, and a task
\* waiting only for keys that are complete can return.
C10_CompleteIdempotentPermanent ==
    /\ [][/\ completed \subseteq completed'
          /\ \A s \in Stages : nComplete'[s] # nComplete[s] =>
                completed' = completed \cup SignaledNow(s)
         ]_vars
    /\ [](\A s \in Stages :
            (pc[s] = "wait" /\ ~exited /\ WaitedKeys(s) \subseteq completed)
            => ENABLED WaitReturns(s))

C10_Witness ==
    \E k \in Stages :
        /\ Cardinality({s \in Stages : <<s, k>> \in signals}) >= 2
        /\ k \in completed
        /\ k \in waited

----------------------------------------------------------------------------
(* C11 *)

\* the backend operations of a stage that returned an error
Failed(s) ==
    {calls[s][i][1] :
        i \in {j \in 1..Len(calls[s]) : calls[s][j][2] = "failed"}}

\* C11: whenever InstallChart or UpgradeChart returned an error, Create does
\* not report success (a nil error) for the stage.
C11_BackendErrorIsFatal ==
    mode = "create" =>
        \A s \in Stages :
            Failed(s) \cap {"Install", "Upgrade"} # {} => result[s] # "nil"

----------------------------------------------------------------------------
(* C12 *)

\* a command of jobs.before exited with an error
BeforeFailed(s) ==
    \E i \in 1..Len(hooks[s]) :
        hooks[s][i][1][1] = "before" /\ hooks[s][i][2] = "failed"

\* C12: when a before hook fails, Create renders nothing, makes no backend
\* call and returns a failure.
C12_FailingBeforeHookAborts ==
    mode = "create" =>
        \A s \in Stages : BeforeFailed(s) =>
            /\ pc[s] \notin {"decide", "fatal"}
            /\ calls[s] = <<>>
            /\ result[s] \notin {"nil", "panic", "fatal"}
            /\ (pc[s] = "done" => result[s] # "none")

----------------------------------------------------------------------------
(* C13 *)

\* a key that no task completes any more: it is not complete, and no stage
\* owns it or the process has ended before its owner signaled
NeverCompleted(k) == k \notin completed /\ (k \notin Stages \/ exited)

\* a Create blocked in its Wait on such a key
BlockedForever(s) ==
    /\ mode = "create"
    /\ pc[s] = "wait"
    /\ \E k \in depends[s] : NeverCompleted(k)

\* C13: a Create whose Wait is on a key that no task ever completes stays in
\* that Wait at every later step: it runs no hook and no backend call, it never
\* signals its own key, and the key stays incomplete.
C13_WaitOnDeadKeyNeverReturns ==
    [][\A s \in Stages : BlockedForever(s) =>
          /\ BlockedForever(s)'
          /\ s \notin waited'
          /\ hooks'[s] = <<>>
          /\ calls'[s] = <<>>
          /\ nComplete'[s] = 0
          /\ <<s, s>> \notin signals']_vars

C13_Witness ==
    \E s \in Stages :
        /\ BlockedForever(s)
        /\ Ghost \in depends[s]
        /\ Cardinality(depends[s]) = 2
        /\ \A t \in Stages \ {s} : pc[t] = "done" /\ <<t, t>> \in signals

----------------------------------------------------------------------------
(* C14 *)

\* the <<key, value>> pairs of a mapping
Pairs(m) == {<<k, m[k]>> : k \in DOMAIN m}

\* the pairs a stage may see: the pipeline's base mapping, its own value file
\* and its own namespace and release overlay
OwnPairs(s) ==
    Pairs(BaseValues) \cup Pairs(loaded[s])
        \cup {<<"namespace", Namespace(s)>>, <<"release", Release(s)>>}

\* C14: the base mapping is the same after every step of every Create, and
\* the effective values of a stage hold nothing but base pairs and pairs of
\* its own value file, namespace and release.
C14_EffectiveValuesPrivate ==
    /\ main = BaseValues
    /\ \A s \in Stages : Pairs(values[s]) \subseteq OwnPairs(s)

C14_Witness ==
    /\ mode = "create"
    /\ \E s, t \in Stages :
        /\ s # t
        /\ loaded[s] # NoVals
        /\ pc[s] = "done"
        /\ pc[t] = "done"
        /\ values[t] # NoVals
        /\ "license" \notin DOMAIN values[t]

----------------------------------------------------------------------------
(* C15 *)

\* a MergeVals call has returned
Merged == call.fn = "MergeVals" /\ call.phase = "returned"

\* C15: after MergeVals(prev, next), prev has exactly the keys of both
\* mappings, every key of next with next's value and every other key with the
\* value prev had; next is as it was, and an empty (or nil) next leaves prev
\* as it was.
C15_MergeValsRightWins ==
    Merged =>
        /\ DOMAIN call.prev = DOMAIN call.prev0 \cup DOMAIN call.next0
        /\ \A k \in DOMAIN call.next0 : call.prev[k] = call.next0[k]
        /\ \A k \in DOMAIN call.prev0 \ DOMAIN call.next0 :
               call.prev[k] = call.prev0[k]
        /\ call.next = call.next0
        /\ (call.next0 = NoVals => call.prev = call.prev0)

C15_Witness ==
    /\ Merged
    /\ call.prev0 = [a |-> "1", b |-> "2"]
    /\ call.next0 = [b |-> "1", c |-> "2"]
    /\ call.prev = [a |-> "1", b |-> "1", c |-> "2"]

----------------------------------------------------------------------------
(* C16 *)

\* an Extrapolate call has returned
Extrapolated == call.fn = "Extrapolate" /\ call.phase = "returned"

\* the override file was read and rendered to the YAML text of a mapping
\* with at least one key
Populated ==
    /\ call.tpl # ""
    /\ call.disk.readable
    /\ call.render.ok
    /\ ~call.render.data.nil
    /\ call.render.data.valid
    /\ call.render.data.vals # NoVals

\* C16: Extrapolate with the empty override path returns the mapping as it
\* was given; with a populated override file it returns the mapping with
\* every key of the file at the file's value and every other key of the
\* mapping at the value it had, and no further key.
C16_ExtrapolateOverlaysFile ==
    Extrapolated =>
        /\ call.tpl = "" => call.prev = call.prev0
        /\ Populated =>
            LET override == call.render.data.vals IN
            /\ DOMAIN call.prev = DOMAIN call.prev0 \cup DOMAIN override
            /\ \A k \in DOMAIN override : call.prev[k] = override[k]
            /\ \A k \in DOMAIN call.prev0 \ DOMAIN override :
                   call.prev[k] = call.prev0[k]

C16_Witness ==
    /\ Extrapolated
    /\ Populated
    /\ call.prev0 = [a |-> "1", b |-> "2"]
    /\ call.prev = [a |-> "1", b |-> "3", c |-> "4"]

----------------------------------------------------------------------------
(* C17 *)

RECURSIVE Upstream(_, _)
\* the keys a stage reaches by following depends at most n + 1 times
Upstream(s, n) ==
    IF s \notin Stages THEN {}
    ELSE depends[s] \cup
         (IF n = 0 THEN {} ELSE UNION {Upstream(t, n - 1) : t \in depends[s]})

\* no dependency path between a and b, in either direction
Independent(a, b) ==
    /\ a # b
    /\ a \notin Upstream(b, Len(StageSeq))
    /\ b \notin Upstream(a, Len(StageSeq))

\* C17: in a Create run, of two stages with no dependency path between them
\* either may signal first: when both are ready to signal, each can take the
\* step; a stage whose own depends are complete can leave its Wait whether or
\* not the other has signaled; and a stage whose own checks and external
\* calls succeed does not fail, whatever the other does.
C17_IndependentStagesEitherOrder ==
    (mode = "create" /\ ~exited) =>
        \A a, b \in Stages : Independent(a, b) =>
            /\ (pc[a] = "complete" /\ pc[b] = "complete") =>
                   ENABLED CreateComplete(a) /\ ENABLED CreateComplete(b)
            /\ (pc[a] = "wait" /\ depends[a] \subseteq completed
                    /\ <<b, b>> \notin signals) => ENABLED CreateWait(a)
            /\ a \notin varied => result[a] \in {"none", "nil"}

C17_Witness ==
    /\ mode = "create"
    /\ ~exited
    /\ \E a, b \in Stages :
        /\ Independent(a, b)
        /\ Rank(a) < Rank(b)
        /\ pc[a] = "complete" /\ result[a] = "nil"
        /\ pc[b] = "complete" /\ result[b] = "nil"
        /\ \E c \in Stages : depends[c] = {a}

----------------------------------------------------------------------------
(* C18 *)

\* the backend operations of a stage, in the order it invoked them
Operations(s) == [i \in 1..Len(calls[s]) |-> calls[s][i][1]]

\* C18: before the install-vs-upgrade decision a Create has made no backend
\* call; once it has queried the release status there, it has invoked Delete
\* and then Install when the status was pending-install, Install alone when
\* the query failed, and Upgrade alone in every other case.
C18_ExactlyOneOfInstallUpgrade ==
    mode = "create" =>
        \A s \in Stages :
            IF status[s] = "unset" THEN Operations(s) = <<>>
            ELSE IF err[s] # "nil" THEN Operations(s) = <<"Install">>
            ELSE IF status[s] = "PENDING_INSTALL"
            THEN Operations(s) = <<"Delete", "Install">>
            ELSE Operations(s) = <<"Upgrade">>

C18_Witness ==
    /\ mode = "create"
    /\ \E s, t, u \in Stages :
        /\ Operations(s) = <<"Delete", "Install">> /\ pc[s] = "done"
        /\ Operations(t) = <<"Install">> /\ pc[t] = "done"
        /\ Operations(u) = <<"Install">> /\ pc[u] = "done" /\ u # t

----------------------------------------------------------------------------
(* C19 *)

\* the keys a stage has signaled Complete on
SignaledBy(s) == {k \in Keys : <<s, k>> \in signals}

\* C19: a Destroy that has exited has run its Complete exactly once and has
\* signaled every key of stage.depends, whatever step it exited at; a Destroy
\* signals nothing before its exit, never a key outside stage.depends and
\* never its own key.
C19_DestroySignalsDependsOnce ==
    mode = "destroy" =>
        \A s \in Stages :
            /\ pc[s] = "done" => nComplete[s] = 1 /\ SignaledBy(s) = depends[s]
            /\ pc[s] # "done" => nComplete[s] = 0 /\ SignaledBy(s) = {}
            /\ s \notin SignaledBy(s)

C19_Witness ==
    /\ mode = "destroy"
    /\ \E s, t, u \in Stages :
        /\ pc[s] = "done" /\ result[s] = "requirement not met"
        /\ depends[s] # {}
        /\ pc[t] = "done" /\ result[t] = "err" /\ depends[t] # {}
        /\ pc[u] = "done" /\ result[u] = "nil"

----------------------------------------------------------------------------
(* C20 *)

\* the stage has built its effective values (lines 143-146)
Resolved(s) ==
    /\ mode = "create"
    /\ pc[s] \notin {"start", "resolve"}
    /\ result[s] # "chart already installed"

Overlay == {"namespace", "release"}

\* C20: the effective values of a stage have the keys of the base mapping, of
\* the stage's value file, and namespace and release; namespace and release
\* carry stage.Namespace and stage.Release, every other key of the value file
\* carries the file's value, and every remaining key the base value.  With no
\* value file they are the base mapping plus namespace and release.
C20_EffectiveValuesOverlay ==
    \A s \in Stages : Resolved(s) =>
        /\ DOMAIN values[s] =
               DOMAIN BaseValues \cup DOMAIN loaded[s] \cup Overlay
        /\ values[s]["namespace"] = Namespace(s)
        /\ values[s]["release"] = Release(s)
        /\ \A k \in DOMAIN loaded[s] \ Overlay : values[s][k] = loaded[s][k]
        /\ \A k \in DOMAIN BaseValues \ (DOMAIN loaded[s] \cup Overlay) :
               values[s][k] = BaseValues[k]
        /\ loaded[s] = NoVals =>
               values[s] = [k \in DOMAIN BaseValues \cup Overlay |->
                               IF k = "namespace" THEN Namespace(s)
                               ELSE IF k = "release" THEN Release(s)
                               ELSE BaseValues[k]]

C20_Witness ==
    \E s, t \in Stages :
        /\ Resolved(s) /\ pc[s] = "done"
        /\ "release" \in DOMAIN loaded[s]
        /\ "namespace" \in DOMAIN BaseValues
        /\ values[s] = [region |-> "us", license |-> "f",
                        namespace |-> Namespace(s), release |-> Release(s)]
        /\ Resolved(t) /\ pc[t] = "done"
        /\ loaded[t] = NoVals
        /\ values[t]["region"] = "eu"

----------------------------------------------------------------------------
(* C21 *)

\* a shellVars call has returned
ShellVarsReturned == call.fn = "shellVars" /\ call.phase = "returned"

\* the KEY=VALUE strings of a mapping
KeyValues(m) == {k \o "=" \o m[k] : k \in DOMAIN m}

\* C21: what shellVars returns has one entry per key of the mapping, every
\* entry is the KEY=VALUE string of a key, and shellJobs hands a command
\* these entries followed by the ambient environment.
C21_ShellVarsOneEntryPerKey ==
    ShellVarsReturned =>
        /\ Len(call.envs) = Cardinality(DOMAIN call.prev)
        /\ {call.envs[i] : i \in 1..Len(call.envs)} = KeyValues(call.prev)
        /\ call.env = call.envs \o Environ

----------------------------------------------------------------------------
(* C22 *)

\* the stages whose release a Delete has been invoked for
Deleted == {s \in Stages : "Delete" \in Invoked(s)}

\* C22: in a Destroy run, a stage's release is among those Delete has been
\* invoked for only when the release of every stage listing it in depends is
\* among them too, also when a stage fails its requires check or its delete.
C22_DeletedClosedUnderDependents ==
    mode = "destroy" =>
        \A x \in Stages : \A y \in depends[x] \cap Deleted : x \in Deleted

----------------------------------------------------------------------------
(* C23 *)

\* the after hooks of a stage have run
AfterHooksRun(s) ==
    \E i \in 1..Len(hooks[s]) : hooks[s][i][1][1] = "after"

\* the stage is past its Wait and has not yet finished its after hooks
StillWorking(s) == pc[s] \in {"before", "render", "decide", "after"}

\* C23: in a Create run, a stage that passed its Wait has signaled its own
\* key only when its release step is over (returned, or given up by a panic)
\* and its after hooks have run; so a dependent that has begun its before
\* hooks or its install / upgrade step finds the after hooks of every stage
\* it depends on finished.
C23_SignalAfterAfterHooks ==
    mode = "create" =>
        \A s \in waited :
            /\ <<s, s>> \in signals =>
                /\ ~StillWorking(s)
                /\ AfterHooksRun(s)
                /\ result[s] \in {"nil", "panic"}
            /\ \A d \in Dependents(s) : Begun(d) =>
                   ~StillWorking(s) /\ AfterHooksRun(s)

C23_Witness ==
    /\ mode = "create"
    /\ \E s \in waited :
        /\ <<s, s>> \in signals
        /\ result[s] = "nil"
        /\ AfterHooksRun(s)
        /\ \E d \in Dependents(s) : pc[d] = "before"
        /\ \E e \in Dependents(s) : pc[e] = "wait"

====
